---- MODULE Spec2Model ----
(***************************************************************************)
(* The scanner of rox (src/src/scanner.rs) with the literal parser it      *)
(* consults (src/src/literal.rs).  A character is a one-character string,  *)
(* a text (String, &str, Peekable<Chars>) is a sequence of characters.     *)
(* One step of the model is one dispatch of Scanner::next together with    *)
(* what collect() does with the item it returns; the tail calls of next    *)
(* (skip_forward, skip_down, skip_line) hand over to the next dispatch.    *)
(***************************************************************************)
EXTENDS Integers, Sequences, FiniteSets, TLC

(***************************************************************************)
(* Bounds of the explored inputs.                                          *)
(***************************************************************************)
MaxLen == 4
MaxNumLen == 5
MaxWordLen == 6
MaxLitLen == 4
MaxOpLen == 4
MaxFairLen == 3
MaxBlankLen == 5
MaxParseLen == 4

Quote == "\""
Newline == "\n"

\* one representative of every dispatch arm
Alphabet == {"(", ".", "!", "=", "/", Quote, " ", Newline, "1", "a", "@"}
\* digits, the dot and a separator
NumAlphabet == {"1", "2", "3", ".", " "}
\* letters that spell for, if and or, the underscore and a separator
WordAlphabet == {"f", "o", "r", "i", "_", " "}
\* letters that spell true, inf and if
LitAlphabet == {"t", "r", "u", "e", "i", "n", "f"}
\* texts handed to the literal parser on their own
ParseAlphabet == {Quote, "a", "1", ".", " "}
\* blanks, the newline, the slash and a digit
BlankAlphabet == {" ", "\t", "\r", Newline, "/", "1"}
\* the four operators that may take a second character
OpAlphabet == {"!", "=", "<", ">", "1", " "}

SeqsUpTo(A, n) == UNION {[1..k -> A] : k \in 0..n}

Sources ==
    SeqsUpTo(Alphabet, MaxLen) \cup SeqsUpTo(NumAlphabet, MaxNumLen)
        \cup SeqsUpTo(WordAlphabet, MaxWordLen) \cup SeqsUpTo(OpAlphabet, MaxOpLen)
        \cup SeqsUpTo(LitAlphabet, MaxLitLen) \cup SeqsUpTo(BlankAlphabet, MaxBlankLen)

ParseTexts ==
    SeqsUpTo(ParseAlphabet, MaxParseLen)
        \cup {<<"t", "r", "u", "e">>, <<"f", "a", "l", "s", "e">>}

FairSources == SeqsUpTo(Alphabet, MaxFairLen)

(***************************************************************************)
(* Character classes.                                                      *)
(***************************************************************************)
Digits == {"0", "1", "2", "3", "4", "5", "6", "7", "8", "9"}

Alphabetic ==
    {"a", "b", "c", "d", "e", "f", "g", "h", "i", "j", "k", "l", "m",
     "n", "o", "p", "q", "r", "s", "t", "u", "v", "w", "x", "y", "z",
     "A", "B", "C", "D", "E", "F", "G", "H", "I", "J", "K", "L", "M",
     "N", "O", "P", "Q", "R", "S", "T", "U", "V", "W", "X", "Y", "Z"}

\* char::is_whitespace, as str::trim uses it (the ASCII part)
WhiteSpace == {" ", "\t", "\n", "\r", "\f"}

is_digit(ch) == ch \in Digits

is_alpha(ch) == ch \in Alphabetic \/ ch = "_"

is_alphanumeric(ch) == is_alpha(ch) \/ is_digit(ch)

is_dot(ch) == ch = "."

AlphanumericChars == Alphabetic \cup {"_"} \cup Digits

(***************************************************************************)
(* Texts.                                                                  *)
(***************************************************************************)
starts_with(s, ch) == Len(s) >= 1 /\ s[1] = ch

ends_with(s, ch) == Len(s) >= 1 /\ s[Len(s)] = ch

\* Where a definition uses its argument several times it binds it once
\* (x \in {argument}), so that the argument is evaluated a single time.
RECURSIVE trim_start(_)
trim_start(text) ==
    CHOOSE out \in
        { IF s # <<>> /\ Head(s) \in WhiteSpace THEN trim_start(Tail(s)) ELSE s
          : s \in {text} } : TRUE

RECURSIVE trim_end(_)
trim_end(text) ==
    CHOOSE out \in
        { IF s # <<>> /\ s[Len(s)] \in WhiteSpace
          THEN trim_end(SubSeq(s, 1, Len(s) - 1))
          ELSE s
          : s \in {text} } : TRUE

trim(s) == trim_end(trim_start(s))

(***************************************************************************)
(* Literal values (literal.rs).  A number is kept as the exact decimal its *)
(* text denotes, mantissa * 10^(-scale) without trailing zeros, which      *)
(* identifies the f64 value for the short texts explored here.             *)
(***************************************************************************)
LitString(s) == [kind |-> "String", string |-> s]

LitNumber(v) == [kind |-> "Number", number |-> v]

LitBoolean(b) == [kind |-> "Boolean", boolean |-> b]

\* Option<Literal>::None on a token
None == [kind |-> "None"]

Ok(lit) == [ok |-> TRUE, lit |-> lit]

ParseLiteralErr(s, message) == [ok |-> FALSE, literal |-> s, message |-> message]

or_else(r, alt) == CHOOSE out \in {IF x.ok THEN x ELSE alt : x \in {r}} : TRUE

\* bool::from_str: exactly "true" or "false"
parse_bool(s) ==
    IF s = <<"t", "r", "u", "e">> THEN Ok(LitBoolean(TRUE))
    ELSE IF s = <<"f", "a", "l", "s", "e">> THEN Ok(LitBoolean(FALSE))
    ELSE ParseLiteralErr(s, "provided string was not true or false")

AllDigits(s) == \A i \in 1..Len(s) : s[i] \in Digits

DigitValue(ch) ==
    CASE ch = "0" -> 0 [] ch = "1" -> 1 [] ch = "2" -> 2 [] ch = "3" -> 3
      [] ch = "4" -> 4 [] ch = "5" -> 5 [] ch = "6" -> 6 [] ch = "7" -> 7
      [] ch = "8" -> 8 [] ch = "9" -> 9

RECURSIVE DecimalValue(_)
DecimalValue(text) ==
    CHOOSE out \in
        { IF s = <<>> THEN 0
          ELSE 10 * DecimalValue(SubSeq(s, 1, Len(s) - 1)) + DigitValue(s[Len(s)])
          : s \in {text} } : TRUE

\* least index of s holding a character of set, 0 when there is none
IndexOf(s, set) ==
    IF \E i \in 1..Len(s) : s[i] \in set
    THEN CHOOSE i \in 1..Len(s) : s[i] \in set /\ \A j \in 1..(i - 1) : s[j] \notin set
    ELSE 0

RECURSIVE Normalize(_, _)
Normalize(mantissa, scale) ==
    CHOOSE out \in
        { IF m = 0 THEN <<0, 0>>
          ELSE IF m % 10 = 0 THEN Normalize(m \div 10, scale - 1)
          ELSE <<m, scale>>
          : m \in {mantissa} } : TRUE

Finite(negative, m, scale) ==
    CHOOSE out \in
        { [class |-> "finite", negative |-> negative,
           mantissa |-> n[1], scale |-> n[2]]
          : n \in {Normalize(m, scale)} } : TRUE

Special(class, negative) ==
    [class |-> class, negative |-> negative, mantissa |-> 0, scale |-> 0]

IsSign(ch) == ch \in {"+", "-"}

Unsigned(s) == IF s # <<>> /\ IsSign(s[1]) THEN Tail(s) ELSE s

\* Digit+ | Digit+ '.' Digit* | Digit* '.' Digit+
IsMantissa(s) ==
    \E dot \in {IndexOf(s, {"."})} :
        \E int \in {IF dot = 0 THEN s ELSE SubSeq(s, 1, dot - 1)} :
            \E frac \in {IF dot = 0 THEN <<>> ELSE SubSeq(s, dot + 1, Len(s))} :
                AllDigits(int) /\ AllDigits(frac) /\ Len(int) + Len(frac) >= 1

\* 'e' Sign? Digit+
IsExponent(s) == Unsigned(s) # <<>> /\ AllDigits(Unsigned(s))

\* the parts of a text: sign, mantissa (integer and fraction digits) and
\* exponent
FloatParts(s) ==
    CHOOSE out \in
        { [negative |-> s # <<>> /\ s[1] = "-",
           body |-> body,
           mant |-> IF e = 0 THEN body ELSE SubSeq(body, 1, e - 1),
           hasexp |-> e # 0,
           exp |-> IF e = 0 THEN <<>> ELSE SubSeq(body, e + 1, Len(body))]
          : <<body, e>> \in {<<Unsigned(s), IndexOf(Unsigned(s), {"e", "E"})>>} } : TRUE

MantissaParts(mant) ==
    CHOOSE out \in
        { [int |-> IF dot = 0 THEN mant ELSE SubSeq(mant, 1, dot - 1),
           frac |-> IF dot = 0 THEN <<>> ELSE SubSeq(mant, dot + 1, Len(mant))]
          : dot \in {IndexOf(mant, {"."})} } : TRUE

ExponentValue(exp) ==
    IF exp = <<>> THEN 0
    ELSE IF exp[1] = "-" THEN 0 - DecimalValue(Unsigned(exp))
    ELSE DecimalValue(Unsigned(exp))

\* f64::from_str: Sign? ( 'inf' | 'infinity' | 'nan' | Number Exp? )
dec2flt(text) ==
    CHOOSE out \in
        { IF p.body \in {<<"i", "n", "f">>, <<"i", "n", "f", "i", "n", "i", "t", "y">>}
          THEN [ok |-> TRUE, value |-> Special("inf", p.negative)]
          ELSE IF p.body \in {<<"n", "a", "n">>, <<"N", "a", "N">>}
          THEN [ok |-> TRUE, value |-> Special("nan", p.negative)]
          ELSE IF IsMantissa(p.mant) /\ (~p.hasexp \/ IsExponent(p.exp))
          THEN [ok |-> TRUE,
                value |-> Finite(p.negative,
                                 DecimalValue(MantissaParts(p.mant).int
                                                  \o MantissaParts(p.mant).frac),
                                 Len(MantissaParts(p.mant).frac) - ExponentValue(p.exp))]
          ELSE [ok |-> FALSE, value |-> Special("nan", FALSE)]
          : p \in {FloatParts(text)} } : TRUE

parse_number(s) ==
    CHOOSE out \in
        { IF parsed.ok THEN Ok(LitNumber(parsed.value))
          ELSE ParseLiteralErr(s, "invalid float literal")
          : parsed \in {dec2flt(s)} } : TRUE

\* the range check is off by one: "" is rejected as an empty string
parse_string_nonempty(s) ==
    IF ~(starts_with(s, Quote) /\ ends_with(s, Quote))
    THEN ParseLiteralErr(s, "Incorrectly formatted string!")
    ELSE IF 1 < Len(s) - 1
    THEN Ok(LitString(SubSeq(s, 2, Len(s) - 1)))
    ELSE ParseLiteralErr(s, "Empty string!")

\* the range is taken without the check: a lone quote is an empty string
parse_string_unchecked(s) ==
    IF ~(starts_with(s, Quote) /\ ends_with(s, Quote))
    THEN ParseLiteralErr(s, "Incorrectly formatted string!")
    ELSE Ok(LitString(SubSeq(s, 2, Len(s) - 1)))

\* s.get(1..s.len() - 1): None when the range is empty backwards
parse_string(s) ==
    IF ~(starts_with(s, Quote) /\ ends_with(s, Quote))
    THEN ParseLiteralErr(s, "Incorrectly formatted string!")
    ELSE IF 1 <= Len(s) - 1
    THEN Ok(LitString(SubSeq(s, 2, Len(s) - 1)))
    ELSE ParseLiteralErr(s, "Empty string!")

from_str(text) ==
    CHOOSE out \in
        { or_else(or_else(parse_bool(s), parse_number(s)), parse_string(s))
          : s \in {text} } : TRUE

(***************************************************************************)
(* The scanner (scanner.rs).  A scanner value sc is the record of the      *)
(* fields source, position and current of struct Scanner; reserved_words   *)
(* never changes and is the definition below.                              *)
(***************************************************************************)
VARIABLES
    input,      \* the String handed to scan
    source,     \* Scanner.source: the characters not yet taken
    position,   \* Scanner.position: <<line, column>>
    current,    \* Scanner.current: the lexeme buffer
    tokens,     \* the Vec collect() is filling
    result,     \* what scan returns, Pending until it does
    parse_input,    \* the String handed to Literal::parse
    parse_result    \* what Literal::parse returns, NotParsed until it does

vars == <<input, source, position, current, tokens, result, parse_input, parse_result>>

Token(tt, lex, lit, pos) ==
    [token_type |-> tt, lexeme |-> lex, literal |-> lit, position |-> pos]

ScanError(pos, text) ==
    [position |-> pos, message |-> [label |-> "Unexpected character", text |-> text]]

NoError == [position |-> <<0, 0>>, message |-> [label |-> "", text |-> <<>>]]

Pending == [kind |-> "Pending", tokens |-> <<>>, error |-> NoError]

reserved_words ==
    { [word |-> <<"a", "n", "d">>, tt |-> "And"],
      [word |-> <<"c", "l", "a", "s", "s">>, tt |-> "Class"],
      [word |-> <<"e", "l", "s", "e">>, tt |-> "Else"],
      [word |-> <<"f", "a", "l", "s", "e">>, tt |-> "False"],
      [word |-> <<"f", "o", "r">>, tt |-> "For"],
      [word |-> <<"f", "u", "n">>, tt |-> "Fun"],
      [word |-> <<"i", "f">>, tt |-> "If"],
      [word |-> <<"n", "i", "l">>, tt |-> "Nil"],
      [word |-> <<"o", "r">>, tt |-> "Or"],
      [word |-> <<"p", "r", "i", "n", "t">>, tt |-> "Print"],
      [word |-> <<"r", "e", "t", "u", "r", "n">>, tt |-> "Return"],
      [word |-> <<"s", "u", "p", "e", "r">>, tt |-> "Super"],
      [word |-> <<"t", "h", "i", "s">>, tt |-> "This"],
      [word |-> <<"t", "r", "u", "e">>, tt |-> "True"],
      [word |-> <<"v", "a", "r">>, tt |-> "Var"],
      [word |-> <<"w", "h", "i", "l", "e">>, tt |-> "While"] }

forward(sc) == [sc EXCEPT !.position = <<@[1], @[2] + 1>>]

\* the column is reset and the line is left as it is
down_same_line(sc) == [sc EXCEPT !.position = <<@[1], 0>>]

down(sc) == [sc EXCEPT !.position = <<@[1] + 1, 0>>]

\* the character is pushed and the position is left as it is
consume_in_place(sc, ch) == [sc EXCEPT !.current = Append(@, ch)]

consume(sc, ch) ==
    [(IF ch = Newline THEN down(sc) ELSE forward(sc)) EXCEPT !.current = Append(@, ch)]

token(sc, tt) ==
    CHOOSE tok \in
        { IF parsed.ok
          THEN Token(tt, lexeme, parsed.lit, sc.position)
          ELSE Token(tt, lexeme, None, sc.position)
          : <<lexeme, parsed>> \in
                {<<trim(sc.current), from_str(trim(sc.current))>>} } : TRUE

\* the buffer is not cleared after the emission
emit_keep(scanner, tt) ==
    CHOOSE out \in {[sc |-> sc, tok |-> token(sc, tt)] : sc \in {scanner}} : TRUE

\* the scanner after the emission and the token emitted
emit(scanner, tt) ==
    CHOOSE out \in
        { [sc |-> [sc EXCEPT !.current = <<>>], tok |-> token(sc, tt)]
          : sc \in {scanner} } : TRUE

unexpected_error(sc) == ScanError(sc.position, sc.current)

\* the character is peeked at and left in the source
taste_peek(scanner, mc) ==
    CHOOSE out \in
        { IF sc.source # <<>> /\ Head(sc.source) = mc
          THEN [some |-> TRUE, sc |-> sc]
          ELSE [some |-> FALSE, sc |-> sc]
          : sc \in {scanner} } : TRUE

\* takes the next character from the source when it is mc; no position update
taste(scanner, mc) ==
    CHOOSE out \in
        { IF sc.source # <<>> /\ Head(sc.source) = mc
          THEN [some |-> TRUE, sc |-> [sc EXCEPT !.source = Tail(@)]]
          ELSE [some |-> FALSE, sc |-> sc]
          : sc \in {scanner} } : TRUE

digest(sc, mc, emission) == emit(consume(sc, mc), emission)

\* one character is dropped, whatever follows it
skip_til_once(scanner, stop) ==
    IF scanner.source = <<>> THEN scanner
    ELSE [scanner EXCEPT !.source = Tail(@)]

\* The loops below bind the scanner they are given once (sc \in {scanner})
\* so that each iteration is evaluated a single time.
RECURSIVE skip_til(_, _)
skip_til(scanner, stop) ==
    CHOOSE after \in
        { IF sc.source = <<>> THEN sc
          ELSE IF Head(sc.source) = stop THEN [sc EXCEPT !.source = Tail(@)]
          ELSE skip_til(forward([sc EXCEPT !.source = Tail(@)]), stop)
          : sc \in {scanner} } : TRUE

\* stop is the set of characters the closure answers true for
RECURSIVE slurp_til(_, _)
slurp_til(scanner, stop) ==
    CHOOSE after \in
        { IF sc.source = <<>> \/ Head(sc.source) \in stop THEN sc
          ELSE slurp_til(consume([sc EXCEPT !.source = Tail(@)], Head(sc.source)),
                         stop)
          : sc \in {scanner} } : TRUE

\* keep_going is the set of characters the closure answers true for
RECURSIVE slurp_while(_, _)
slurp_while(scanner, keep_going) ==
    CHOOSE after \in
        { IF sc.source # <<>> /\ Head(sc.source) \notin keep_going THEN sc
          ELSE IF sc.source = <<>> THEN sc
          ELSE slurp_while(consume([sc EXCEPT !.source = Tail(@)], Head(sc.source)),
                           keep_going)
          : sc \in {scanner} } : TRUE

\* the lookup matches a key that is a prefix of the text
get_prefix(map, key) ==
    IF \E r \in map : Len(r.word) <= Len(key) /\ SubSeq(key, 1, Len(r.word)) = r.word
    THEN (CHOOSE r \in map :
              Len(r.word) <= Len(key) /\ SubSeq(key, 1, Len(r.word)) = r.word).tt
    ELSE "Identifier"

get(map, key) ==
    IF \E r \in map : r.word = key
    THEN (CHOOSE r \in map : r.word = key).tt
    ELSE "Identifier"

identifier(sc, ch) ==
    CHOOSE out \in
        { emit(slurped, get(reserved_words, slurped.current))
          : slurped \in {slurp_while(consume(sc, ch), AlphanumericChars)} } : TRUE

\* letters are taken into the number along with the digits
number_alnum(sc, ch) ==
    CHOOSE out \in
        { emit(slurped, "Number")
          : slurped \in {slurp_while(consume(sc, ch), AlphanumericChars)} } : TRUE

\* the dot is taken without a look at the character after it
number_any_dot(sc, ch) ==
    CHOOSE out \in
        { IF Len(digits.source) >= 1 /\ is_dot(digits.source[1])
          THEN emit(slurp_while(consume([digits EXCEPT !.source = Tail(@)],
                                        digits.source[1]),
                                Digits),
                    "Number")
          ELSE emit(digits, "Number")
          : digits \in {slurp_while(consume(sc, ch), Digits)} } : TRUE

number(sc, ch) ==
    CHOOSE out \in
        { IF /\ Len(digits.source) >= 2
             /\ is_dot(digits.source[1])
             /\ is_digit(digits.source[2])
          THEN emit(slurp_while(consume([digits EXCEPT !.source = Tail(@)],
                                        digits.source[1]),
                                Digits),
                    "Number")
          ELSE emit(digits, "Number")
          : digits \in {slurp_while(consume(sc, ch), Digits)} } : TRUE

(***************************************************************************)
(* scan: Scanner::new, then collect() over the items of next.              *)
(***************************************************************************)
\* collect() met None: the whole Vec is delivered
scan_ok(toks) == [kind |-> "Ok", tokens |-> toks, error |-> NoError]

\* the Vec filled so far is delivered along with the error
scan_err_partial(toks, e) == [kind |-> "Err", tokens |-> toks, error |-> e]

\* collect() met Some(Err(e)): the Vec is dropped and e is delivered
scan_err(toks, e) == [kind |-> "Err", tokens |-> <<>>, error |-> e]

\* Literal::parse has not been called
NotParsed == [kind |-> "NotParsed"]

\* Literal::parse has returned r
Parsed(r) == [kind |-> "Parsed", value |-> r]

Init ==
    /\ input \in Sources
    /\ source = input
    /\ position = <<0, 0>>
    /\ current = <<>>
    /\ tokens = <<>>
    /\ result = Pending
    /\ parse_input = <<>>
    /\ parse_result = NotParsed

\* scan has not been called yet
NotCalled == [kind |-> "NotCalled", tokens |-> <<>>, error |-> NoError]

InitFair ==
    /\ input = <<>>
    /\ source = <<>>
    /\ position = <<0, 0>>
    /\ current = <<>>
    /\ tokens = <<>>
    /\ result = NotCalled
    /\ parse_input = <<>>
    /\ parse_result = NotParsed

\* scan is called: Scanner::new over the characters of the source
New ==
    /\ result.kind = "NotCalled"
    /\ \E s \in FairSources :
           /\ input' = s
           /\ source' = s
    /\ position' = <<0, 0>>
    /\ current' = <<>>
    /\ tokens' = <<>>
    /\ result' = Pending
    /\ UNCHANGED <<parse_input, parse_result>>

Self == [source |-> source, position |-> position, current |-> current]

\* the leading character is peeked at and left in the source
Taken_peek == Self

\* the scanner once next has taken the leading character from the source
Taken == [Self EXCEPT !.source = Tail(@)]

\* next is called and the source holds a character to dispatch on
Dispatching == result.kind = "Pending" /\ source # <<>>

Become(scanner) ==
    \E sc \in {scanner} :
        /\ source' = sc.source
        /\ position' = sc.position
        /\ current' = sc.current

\* next returns Some(Ok(token)) and collect() pushes it
Yield(emitted) ==
    \E e \in {emitted} :
        /\ Become(e.sc)
        /\ tokens' = Append(tokens, e.tok)
        /\ UNCHANGED <<parse_input, parse_result, input, result>>

\* next returns Some(Err(error)) and collect() stops
Fail(scanner, e) ==
    \E sc \in {scanner} :
        /\ Become(sc)
        /\ result' = scan_err(tokens, e)
        /\ UNCHANGED <<parse_input, parse_result, input, tokens>>

\* next ends in a call of itself: the following dispatch continues from sc
Recurse(sc) ==
    /\ Become(sc)
    /\ UNCHANGED <<parse_input, parse_result, input, tokens, result>>

\* the blank is skipped and the position is left as it is
skip_forward_still(sc) == sc

skip_forward(sc) == forward(sc)

\* the newline is skipped and kept in the lexeme buffer
skip_down_buffered(sc) == consume(sc, Newline)

skip_down(sc) == down(sc)

\* the line is skipped and the line counter is left as it is
skip_line_no_down(sc) == skip_til(sc, Newline)

skip_line(sc) == skip_down(skip_til(sc, Newline))

SingleChars == {"(", ")", "{", "}", ",", ".", "-", "+", ";", "*"}

SingleKind(ch) ==
    CASE ch = "(" -> "LeftParen" [] ch = ")" -> "RightParen"
      [] ch = "{" -> "LeftBrace" [] ch = "}" -> "RightBrace"
      [] ch = "," -> "Comma" [] ch = "." -> "Dot"
      [] ch = "-" -> "Minus" [] ch = "+" -> "Plus"
      [] ch = ";" -> "Semicolon" [] ch = "*" -> "Star"

Operators == {"!", "=", "<", ">"}

OneKind(ch) ==
    CASE ch = "!" -> "Bang" [] ch = "=" -> "Equal"
      [] ch = "<" -> "Less" [] ch = ">" -> "Greater"

TwoKind(ch) ==
    CASE ch = "!" -> "BangEqual" [] ch = "=" -> "EqualEqual"
      [] ch = "<" -> "LessEqual" [] ch = ">" -> "GreaterEqual"

Blanks == {" ", "\r", "\t"}

PunctuatorArm ==
    /\ Dispatching
    /\ Head(source) \in SingleChars
    /\ Yield(digest(Taken, Head(source), SingleKind(Head(source))))

OperatorArm ==
    /\ Dispatching
    /\ Head(source) \in Operators
    /\ \E consumed \in {consume(Taken, Head(source))} :
           \E tasted \in {taste(consumed, "=")} :
               IF tasted.some
               THEN Yield(digest(tasted.sc, "=", TwoKind(Head(source))))
               ELSE Yield(emit(consumed, OneKind(Head(source))))

SlashArm ==
    /\ Dispatching
    /\ Head(source) = "/"
    /\ \E tasted \in {taste(Taken, "/")} :
           IF tasted.some
           THEN Recurse(skip_line(tasted.sc))
           ELSE Yield(digest(Taken, Head(source), "Slash"))

StringArm ==
    /\ Dispatching
    /\ Head(source) = Quote
    /\ \E slurped \in {slurp_til(consume(Taken, Head(source)), {Quote})} :
           IF slurped.source = <<>>
           THEN Fail(slurped, unexpected_error(slurped))
           ELSE Yield(digest([slurped EXCEPT !.source = Tail(@)],
                             Head(slurped.source), "String"))

BlankArm ==
    /\ Dispatching
    /\ Head(source) \in Blanks
    /\ Recurse(skip_forward(Taken))

NewlineArm ==
    /\ Dispatching
    /\ Head(source) = Newline
    /\ Recurse(skip_down(Taken))

Matched == SingleChars \cup Operators \cup {"/", Quote, Newline} \cup Blanks

NumberArm ==
    /\ Dispatching
    /\ Head(source) \notin Matched
    /\ is_digit(Head(source))
    /\ Yield(number(Taken, Head(source)))

IdentifierArm ==
    /\ Dispatching
    /\ Head(source) \notin Matched
    /\ ~is_digit(Head(source))
    /\ is_alpha(Head(source))
    /\ Yield(identifier(Taken, Head(source)))

FallbackArm ==
    /\ Dispatching
    /\ Head(source) \notin Matched
    /\ ~is_digit(Head(source))
    /\ ~is_alpha(Head(source))
    /\ Fail(Taken, unexpected_error(Taken))

\* next returns None and collect() returns the Vec
EndOfSource ==
    /\ result.kind = "Pending"
    /\ source = <<>>
    /\ result' = scan_ok(tokens)
    /\ UNCHANGED <<parse_input, parse_result, input, source, position, current, tokens>>

Next ==
    \/ PunctuatorArm
    \/ OperatorArm
    \/ SlashArm
    \/ StringArm
    \/ BlankArm
    \/ NewlineArm
    \/ NumberArm
    \/ IdentifierArm
    \/ FallbackArm
    \/ EndOfSource

Spec == Init /\ [][Next]_vars

NextFair == New \/ Next

\* scan runs collect() to completion: a step that can be taken is taken
\* the literal parser on its own: scan is not called, a text is handed to
\* Literal::parse
InitParse ==
    /\ input = <<>>
    /\ source = <<>>
    /\ position = <<0, 0>>
    /\ current = <<>>
    /\ tokens = <<>>
    /\ result = NotCalled
    /\ parse_input \in ParseTexts
    /\ parse_result = NotParsed

\* Literal::parse(s) is Self::from_str(&*s)
Parse ==
    /\ result.kind = "NotCalled"
    /\ parse_result.kind = "NotParsed"
    /\ parse_result' = Parsed(from_str(parse_input))
    /\ UNCHANGED <<input, source, position, current, tokens, result, parse_input>>

NextParse == Parse

ParseSpec == InitParse /\ [][NextParse]_vars

FairSpec == InitFair /\ [][NextFair]_vars /\ WF_vars(NextFair)

(***************************************************************************)
(* Properties.                                                             *)
(***************************************************************************)
Range(s) == {s[i] : i \in 1..Len(s)}

\* the dispatch on the leading character of source ends in an error: the
\* character matches no arm, or it opens a string that is never closed
ErrorDispatch ==
    /\ Dispatching
    /\ \/ /\ Head(source) \notin Matched
          /\ ~is_digit(Head(source))
          /\ ~is_alpha(Head(source))
       \/ /\ Head(source) = Quote
          /\ Quote \notin Range(Tail(source))

UnterminatedDispatch ==
    /\ Dispatching
    /\ Head(source) = Quote
    /\ Quote \notin Range(Tail(source))

C1Delivered ==
    /\ result.kind \in {"Pending", "Ok", "Err"}
    /\ result.kind = "Ok" =>
           result.tokens = tokens /\ result.error = NoError /\ source = <<>>
    /\ result.kind = "Err" => result.tokens = <<>> /\ result.error # NoError

C1Step ==
    /\ ErrorDispatch => result'.kind = "Err" /\ tokens' = tokens
    /\ (Dispatching /\ ~ErrorDispatch) => result'.kind = "Pending"
    /\ result.kind # "Pending" => UNCHANGED vars

\* C1: scan returns either the whole token list or one error, never both;
\* the error is that of the first dispatch that fails, none of the tokens
\* produced before it is delivered, and nothing is dispatched after it.
C1_TokensOrFirstError == [](C1Delivered) /\ [][C1Step]_vars

\* an error is delivered after tokens had been produced
C1_Witness == result.kind = "Err" /\ Len(tokens) >= 1 /\ source # <<>>

\* C2: a string that is opened and not closed before the end of input
\* yields an error of a kind other than the unexpected-character error.
C2_UnterminatedIsDistinct ==
    [][UnterminatedDispatch =>
           /\ result'.kind = "Err"
           /\ result'.error.message.label # "Unexpected character"]_vars

LiteralKinds == {"String", "Number", "True", "False"}

\* C3: a token whose kind is not String, Number, True or False has no
\* literal attached.
C3_OtherKindsHaveNoLiteral ==
    \A i \in 1..Len(tokens) :
        tokens[i].token_type \notin LiteralKinds => tokens[i].literal = None

\* C4: a String token's lexeme begins and ends with a quote and its literal
\* is the string between them; the source "" scans to one String token with
\* the empty string as literal.
C4_StringTokens ==
    /\ \A i \in 1..Len(tokens) :
           tokens[i].token_type = "String" =>
               /\ Len(tokens[i].lexeme) >= 2
               /\ tokens[i].lexeme[1] = Quote
               /\ tokens[i].lexeme[Len(tokens[i].lexeme)] = Quote
               /\ tokens[i].literal =
                      [kind |-> "String",
                       string |-> [k \in 1..(Len(tokens[i].lexeme) - 2) |->
                                      tokens[i].lexeme[k + 1]]]
    /\ (input = <<Quote, Quote>> /\ result.kind # "Pending") =>
           /\ result.kind = "Ok"
           /\ Len(result.tokens) = 1
           /\ result.tokens[1].token_type = "String"
           /\ result.tokens[1].literal = [kind |-> "String", string |-> <<>>]

\* the source holds "" after another token and scans to a String token with
\* an empty payload
C4_Witness ==
    /\ result.kind = "Ok"
    /\ Len(result.tokens) = 2
    /\ result.tokens[2].token_type = "String"
    /\ result.tokens[2].lexeme = <<Quote, Quote>>
    /\ result.tokens[2].literal.string = <<>>

KeywordKinds == {r.tt : r \in reserved_words}

\* C5: a token whose lexeme is a keyword spelling has that keyword's kind,
\* and a token has a keyword kind only if its whole lexeme is the spelling.
C5_KeywordIdentity ==
    \A i \in 1..Len(tokens) :
        /\ \A r \in reserved_words :
               tokens[i].lexeme = r.word => tokens[i].token_type = r.tt
        /\ tokens[i].token_type \in KeywordKinds =>
               \E r \in reserved_words :
                   r.word = tokens[i].lexeme /\ r.tt = tokens[i].token_type

\* the keyword or is followed by the identifier or_
C5_Witness ==
    /\ Len(tokens) = 2
    /\ tokens[1].lexeme = <<"o", "r">> /\ tokens[1].token_type = "Or"
    /\ tokens[2].lexeme = <<"o", "r", "_">> /\ tokens[2].token_type = "Identifier"

LexLE(p, q) == p[1] < q[1] \/ (p[1] = q[1] /\ p[2] <= q[2])

\* C6: the positions of successive tokens never decrease in the
\* lexicographic order of (line, column).
C6_PositionMonotonic ==
    \A i \in 1..(Len(tokens) - 1) :
        LexLE(tokens[i].position, tokens[i + 1].position)

\* a token on a later line has a smaller column than the token before it
C6_Witness ==
    \E i \in 1..(Len(tokens) - 1) :
        /\ tokens[i + 1].position[1] > tokens[i].position[1]
        /\ tokens[i + 1].position[2] < tokens[i].position[2]

RECURSIVE Lexemes(_)
Lexemes(toks) ==
    IF toks = <<>> THEN <<>> ELSE Head(toks).lexeme \o Lexemes(Tail(toks))

\* s without its // comments (through the newline) and without the blanks
\* and newlines that stand outside string literals; mode is where s begins
RECURSIVE Stripped(_, _)
Stripped(s, mode) ==
    IF s = <<>> THEN <<>>
    ELSE CASE mode = "string" ->
                  <<Head(s)>> \o
                      Stripped(Tail(s), IF Head(s) = Quote THEN "code" ELSE "string")
           [] mode = "comment" ->
                  Stripped(Tail(s), IF Head(s) = Newline THEN "code" ELSE "comment")
           [] mode = "code" ->
                  IF Head(s) = "/" /\ Tail(s) # <<>> /\ Head(Tail(s)) = "/"
                  THEN Stripped(Tail(Tail(s)), "comment")
                  ELSE IF Head(s) \in {" ", "\t", "\r", "\n"}
                  THEN Stripped(Tail(s), "code")
                  ELSE IF Head(s) = Quote
                  THEN <<Head(s)>> \o Stripped(Tail(s), "string")
                  ELSE <<Head(s)>> \o Stripped(Tail(s), "code")

\* C7: after a scan without error the lexemes, concatenated in order, are
\* the source without its comments and without the blanks and newlines
\* outside string literals.
C7_RoundTrip ==
    result.kind = "Ok" => Lexemes(result.tokens) = Stripped(input, "code")

\* a scanned source with a blank outside and a blank inside a string
C7_Witness ==
    /\ result.kind = "Ok"
    /\ Len(Stripped(input, "code")) < Len(input)
    /\ \E i \in 1..Len(result.tokens) :
           /\ result.tokens[i].token_type = "String"
           /\ " " \in Range(result.tokens[i].lexeme)

IsSuffix(s, whole) ==
    Len(s) <= Len(whole) /\ s = SubSeq(whole, Len(whole) - Len(s) + 1, Len(whole))

\* C8: every scan ends; each dispatch takes at least one character from the
\* source, characters are taken in order, and a scan that ends without an
\* error has taken as many characters as the source holds.
C8_Terminates ==
    /\ <>(result.kind \in {"Ok", "Err"})
    /\ [][Dispatching => Len(source') < Len(source)]_vars
    /\ [](IsSuffix(source, input))
    /\ [](result.kind = "Ok" => Len(input) - Len(source) = Len(input))

\* a scan has ended without error on a source one dispatch read whole
C8_Witness ==
    /\ result.kind = "Ok"
    /\ Len(input) >= 3
    /\ Len(tokens) = 1

Kinds(toks) == [i \in 1..Len(toks) |-> toks[i].token_type]

C9NumberStep ==
    (Dispatching /\ is_digit(Head(source))) =>
        /\ Len(tokens') = Len(tokens) + 1
        /\ LET tok == tokens'[Len(tokens')]
               lex == tok.lexeme
               dots == {i \in 1..Len(lex) : lex[i] = "."}
           IN  /\ tok.token_type = "Number"
               /\ lex \o source' = source
               /\ Cardinality(dots) <= 1
               /\ \A i \in dots : i > 1 /\ i < Len(lex) /\ is_digit(lex[i + 1])
               /\ \A i \in (1..Len(lex)) \ dots : is_digit(lex[i])
               /\ source' # <<>> => ~is_digit(source'[1])
               /\ (dots = {} /\ Len(source') >= 2 /\ source'[1] = ".") =>
                      ~is_digit(source'[2])

C9DotStep ==
    (Dispatching /\ Head(source) = ".") =>
        /\ Len(tokens') = Len(tokens) + 1
        /\ tokens'[Len(tokens')].token_type = "Dot"
        /\ tokens'[Len(tokens')].lexeme = <<".">>
        /\ source' = Tail(source)

C9Examples ==
    /\ (input = <<"1", ".">> /\ result.kind # "Pending") =>
           result.kind = "Ok" /\ Kinds(result.tokens) = <<"Number", "Dot">>
    /\ (input = <<"1", ".", "2", ".", "3">> /\ result.kind # "Pending") =>
           /\ result.kind = "Ok"
           /\ Kinds(result.tokens) = <<"Number", "Dot", "Number">>
           /\ result.tokens[1].lexeme = <<"1", ".", "2">>
           /\ result.tokens[1].literal.number.mantissa = 12
           /\ result.tokens[1].literal.number.scale = 1
           /\ result.tokens[3].lexeme = <<"3">>
           /\ result.tokens[3].literal.number.mantissa = 3
           /\ result.tokens[3].literal.number.scale = 0

\* C9: a Number takes a dot only when a digit follows it, and at most one;
\* a dot with no digit after it stays in the source and the next dispatch
\* emits it as Dot: 1. gives Number, Dot and 1.2.3 gives Number(1.2), Dot,
\* Number(3).
C9_NumberDot == [](C9Examples) /\ [][C9NumberStep /\ C9DotStep]_vars

\* 1.2.3 has been scanned
C9_Witness == input = <<"1", ".", "2", ".", "3">> /\ result.kind = "Ok"

C10OperatorStep ==
    (Dispatching /\ Head(source) \in {"!", "=", "<", ">"}) =>
        /\ Len(tokens') = Len(tokens) + 1
        /\ LET tok == tokens'[Len(tokens')]
               ch == Head(source)
           IN  IF Len(source) >= 2 /\ source[2] = "="
               THEN /\ tok.lexeme = <<ch, "=">>
                    /\ source' = Tail(Tail(source))
                    /\ tok.token_type =
                           CASE ch = "!" -> "BangEqual" [] ch = "=" -> "EqualEqual"
                             [] ch = "<" -> "LessEqual" [] ch = ">" -> "GreaterEqual"
               ELSE /\ tok.lexeme = <<ch>>
                    /\ source' = Tail(source)
                    /\ tok.token_type =
                           CASE ch = "!" -> "Bang" [] ch = "=" -> "Equal"
                             [] ch = "<" -> "Less" [] ch = ">" -> "Greater"

C10Examples ==
    /\ (input = <<"=", "=", "=">> /\ result.kind # "Pending") =>
           result.kind = "Ok" /\ Kinds(result.tokens) = <<"EqualEqual", "Equal">>
    /\ (input = <<"<", "=", " ", ">">> /\ result.kind # "Pending") =>
           result.kind = "Ok" /\ Kinds(result.tokens) = <<"LessEqual", "Greater">>

\* C10: each of ! = < > followed by = is emitted with it as the kind of two
\* characters; otherwise it is emitted alone and the character after it is
\* left for the next dispatch: === gives EqualEqual, Equal.
C10_Operators == [](C10Examples) /\ [][C10OperatorStep]_vars

\* === has been scanned
C10_Witness ==
    /\ input = <<"=", "=", "=">>
    /\ result.kind = "Ok"
    /\ Len(result.tokens) = 2

\* s after its first newline, nothing when it holds none
RECURSIVE AfterNewline(_)
AfterNewline(s) ==
    IF s = <<>> THEN <<>>
    ELSE IF Head(s) = Newline THEN Tail(s)
    ELSE AfterNewline(Tail(s))

CommentDispatch ==
    Dispatching /\ Len(source) >= 2 /\ source[1] = "/" /\ source[2] = "/"

C11CommentStep ==
    CommentDispatch =>
        /\ tokens' = tokens
        /\ result' = result
        /\ current' = current
        /\ source' = AfterNewline(Tail(Tail(source)))
        /\ position' = <<position[1] + 1, 0>>

C11SlashStep ==
    (Dispatching /\ Head(source) = "/" /\ ~CommentDispatch) =>
        /\ Len(tokens') = Len(tokens) + 1
        /\ tokens'[Len(tokens')].token_type = "Slash"
        /\ tokens'[Len(tokens')].lexeme = <<"/">>
        /\ source' = Tail(source)
        /\ result' = result

C11Example ==
    (input = <<"/", "/", "1", Newline, "1">> /\ result.kind # "Pending") =>
        /\ result.kind = "Ok"
        /\ Len(result.tokens) = 1
        /\ result.tokens[1].token_type = "Number"
        /\ result.tokens[1].lexeme = <<"1">>
        /\ result.tokens[1].position = <<1, 1>>

\* C11: a // comment yields no token and no error: the characters through
\* the next newline are discarded, the line grows by exactly 1 and the
\* column becomes 0, so the token after the comment is placed as on a fresh
\* line; a / that no / follows is emitted as Slash.
C11_Comment == [](C11Example) /\ [][C11CommentStep /\ C11SlashStep]_vars

\* a comment, its newline and a number have been scanned
C11_Witness ==
    /\ input = <<"/", "/", "1", Newline, "1">>
    /\ result.kind = "Ok"
    /\ Len(result.tokens) = 1

\* pos after one update for each character of s: down for a newline,
\* forward for anything else
RECURSIVE PositionAfter(_, _)
PositionAfter(pos, s) ==
    IF s = <<>> THEN pos
    ELSE PositionAfter(IF Head(s) = Newline THEN <<pos[1] + 1, 0>>
                       ELSE <<pos[1], pos[2] + 1>>, Tail(s))

\* the characters a step takes from the character source
TakenBy(before, after) == SubSeq(before, 1, Len(before) - Len(after))

C12Step ==
    Dispatching => position' = PositionAfter(position, TakenBy(source, source'))

\* C12: every character taken from the character source triggers exactly
\* one position update, down for a newline and forward for anything else,
\* whether it ends in a token, in skipped whitespace, in a comment or is
\* rejected as unexpected.
C12_OneUpdatePerCharacter == [][C12Step]_vars

\* the number of blanks s starts with
RECURSIVE LeadingBlanks(_)
LeadingBlanks(s) ==
    IF s # <<>> /\ Head(s) \in Blanks THEN 1 + LeadingBlanks(Tail(s)) ELSE 0

FirstOnFirstLine == Len(tokens) >= 1 /\ tokens[1].position[1] = 0

\* the first token on the first line is reported at column 1
C13_FirstTokenColumnOne ==
    FirstOnFirstLine => tokens[1].position[2] = 1

\* C13: the position starts at (0,0) and is updated before emission, so
\* the first token on the first line is reported at the column of its last
\* character counted from 1: the number of blanks before it plus the length
\* of its lexeme, which is 1 only for a one-character token at the very
\* start of the source.
C13_FirstTokenColumn ==
    FirstOnFirstLine =>
        /\ tokens[1].position[2] = LeadingBlanks(input) + Len(tokens[1].lexeme)
        /\ tokens[1].position[2] >= 1
        /\ (tokens[1].position[2] = 1) <=>
               (LeadingBlanks(input) = 0 /\ Len(tokens[1].lexeme) = 1)

\* a two-character first token after one blank is reported at column 3
C13_Witness ==
    /\ FirstOnFirstLine
    /\ LeadingBlanks(input) = 1
    /\ Len(tokens[1].lexeme) = 2
    /\ tokens[1].position = <<0, 3>>

\* the leading character of source matches no dispatch arm
FallbackDispatch ==
    /\ Dispatching
    /\ Head(source) \notin Matched
    /\ ~is_digit(Head(source))
    /\ ~is_alpha(Head(source))

C14Step ==
    FallbackDispatch =>
        /\ result'.kind = "Err"
        /\ result'.error.message.label = "Unexpected character"
        /\ result'.error.position = position
        /\ Head(source) \in Range(result'.error.message.text)

\* C14: when the leading character matches no dispatch arm the scan yields
\* an unexpected-character error that carries the current position and the
\* offending text: the text in the error contains the character that
\* matched no arm.
C14_ErrorCarriesCharacter == [][C14Step]_vars

\* digit+ optionally followed by . digit+; whole is the number of digits
\* before the dot
NumberShape(lex, whole) ==
    /\ whole >= 1
    /\ AllDigits(SubSeq(lex, 1, whole))
    /\ \/ whole = Len(lex)
       \/ /\ Len(lex) >= whole + 2
          /\ lex[whole + 1] = "."
          /\ AllDigits(SubSeq(lex, whole + 2, Len(lex)))

\* the value of a lexeme of that shape: its digits, scaled by the number of
\* digits after the dot
NumberValue(lex, whole) ==
    IF whole = Len(lex) THEN Finite(FALSE, DecimalValue(lex), 0)
    ELSE Finite(FALSE,
                DecimalValue(SubSeq(lex, 1, whole) \o SubSeq(lex, whole + 2, Len(lex))),
                Len(lex) - whole - 1)

\* C15: every token of kind Number has a lexeme of the shape digit+
\* optionally followed by . digit+ (no sign, no leading or trailing dot, no
\* letter) and always carries a number literal, whose value is the value of
\* the lexeme.
C15_NumberTokens ==
    \A i \in 1..Len(tokens) :
        tokens[i].token_type = "Number" =>
            /\ \E whole \in 1..Len(tokens[i].lexeme) :
                   /\ NumberShape(tokens[i].lexeme, whole)
                   /\ tokens[i].literal = LitNumber(NumberValue(tokens[i].lexeme, whole))
            /\ tokens[i].literal.kind = "Number"

\* a number with a fraction, then a dot that is not part of a number
C15_Witness ==
    /\ Len(tokens) >= 2
    /\ tokens[1].token_type = "Number"
    /\ tokens[1].lexeme = <<"1", "2", ".", "3">>
    /\ tokens[1].literal.kind = "Number"
    /\ tokens[2].token_type = "Dot"

\* the text is neither a boolean nor a number: the first two steps of
\* from_str fail and the string step decides
StringStepDecides(s) == ~parse_bool(s).ok /\ ~parse_number(s).ok

Quoted(s) == Len(s) >= 2 /\ s[1] = Quote /\ s[Len(s)] = Quote

\* C16: the string step of the literal parser, applied to a text that is
\* neither a boolean nor a number, succeeds if and only if the text has
\* length >= 2, begins with a quote and ends with a quote, and then its
\* payload is the text between the first and the last character; the
\* one-character text made of a quote alone is rejected as an error.
C16_StringStep ==
    (parse_result.kind = "Parsed" /\ StringStepDecides(parse_input)) =>
        /\ parse_result.value.ok <=> Quoted(parse_input)
        /\ parse_result.value.ok =>
               parse_result.value.lit =
                   LitString(SubSeq(parse_input, 2, Len(parse_input) - 1))
        /\ parse_input = <<Quote>> =>
               parse_result.value = ParseLiteralErr(<<Quote>>, "Empty string!")
        /\ parse_result.value = parse_string(parse_input)

\* a quoted text that is no boolean and no number has been parsed
C16_Witness ==
    /\ parse_input = <<Quote, " ", "1", Quote>>
    /\ parse_result = Parsed(Ok(LitString(<<" ", "1">>)))

\* the position of the last character of the text read: the number of
\* newlines in it, and the number of characters after its last newline
EndPosition(read) ==
    LET newlines == {i \in 1..Len(read) : read[i] = Newline}
        last == IF newlines = {} THEN 0
                ELSE CHOOSE i \in newlines : \A j \in newlines : j <= i
    IN  <<Cardinality(newlines), Len(read) - last>>

\* what has been read from the source once source is what remains
ReadUpTo(rest) == SubSeq(input, 1, Len(input) - Len(rest))

C17Step ==
    Len(tokens') = Len(tokens) + 1 =>
        tokens'[Len(tokens')].position = EndPosition(ReadUpTo(source'))

LexLT(p, q) == p[1] < q[1] \/ (p[1] = q[1] /\ p[2] < q[2])

C17Increasing ==
    \A i \in 1..(Len(tokens) - 1) :
        LexLT(tokens[i].position, tokens[i + 1].position)

\* C17: the position on every token is the end position of that token: its
\* line is the number of newlines read from the source up to the token's
\* last character and its column the number of characters on that line up
\* to and including that character; so the positions of successive tokens
\* strictly increase and a string spanning several lines is reported on the
\* line of its closing quote.
C17_EndPosition == [](C17Increasing) /\ [][C17Step]_vars

\* a string holding a newline is reported on the line of its closing quote,
\* after an earlier token
C17_Witness ==
    /\ input = <<"(", Quote, Newline, Quote>>
    /\ Len(tokens) = 2
    /\ tokens[1].position = <<0, 1>>
    /\ tokens[2].token_type = "String"
    /\ tokens[2].position = <<1, 1>>

C18Empty ==
    /\ Dispatching => current = <<>>
    /\ current # <<>> => result.kind = "Err"

\* an emitted lexeme is the text the dispatch took from the source, and
\* nothing from before it
C18Step ==
    (Dispatching /\ Len(tokens') = Len(tokens) + 1) =>
        /\ tokens'[Len(tokens')].lexeme \o source' = source
        /\ current' = <<>>

\* C18: the lexeme buffer is empty at the start of every dispatch during
\* scan: a path that appends to the buffer ends in an emission that clears
\* it or in an error that ends the scan, so no lexeme holds characters of an
\* earlier token, of skipped whitespace or of a comment.
C18_BufferEmpty == [](C18Empty) /\ [][C18Step]_vars

\* a dispatch starts after a token and a comment line
C18_Witness ==
    /\ input = <<"1", "/", "/", Newline, "1">>
    /\ Dispatching
    /\ source = <<"1">>
    /\ Len(tokens) = 1
    /\ current = <<>>

\* s holds only blanks, newlines and // comments; a comment may reach the
\* end of s without a newline
RECURSIVE OnlyBlanksAndComments(_, _)
OnlyBlanksAndComments(s, in_comment) ==
    IF s = <<>> THEN TRUE
    ELSE IF in_comment
    THEN OnlyBlanksAndComments(Tail(s), Head(s) # Newline)
    ELSE IF Head(s) \in {" ", "\t", "\r", Newline}
    THEN OnlyBlanksAndComments(Tail(s), FALSE)
    ELSE /\ Len(s) >= 2
         /\ s[1] = "/"
         /\ s[2] = "/"
         /\ OnlyBlanksAndComments(Tail(Tail(s)), TRUE)

C19Quiet ==
    OnlyBlanksAndComments(input, FALSE) =>
        /\ result.kind \in {"Pending", "Ok"}
        /\ tokens = <<>>
        /\ result.tokens = <<>>

C19Step ==
    (OnlyBlanksAndComments(input, FALSE) /\ result.kind = "Pending" /\ source = <<>>) =>
        result' = scan_ok(<<>>)

\* C19: a source that holds only spaces, tabs, carriage returns, newlines
\* and // comments (the empty source and a last comment that reaches the
\* end of input without a newline included) scans to Ok with an empty token
\* list: no token and no error is produced.
C19_BlankSource == [](C19Quiet) /\ [][C19Step]_vars

\* a tab, a carriage return and a comment that reaches the end of input
C19_Witness ==
    /\ input = <<"\t", "\r", "/", "/", "1">>
    /\ result = scan_ok(<<>>)

====
